---- MODULE Spec2Model ----
(***************************************************************************)
(* A model of src/main.py: the chunk / transcribe / translate / merge      *)
(* pipeline of process_file, the segmenter split_audio, the adapters       *)
(* transcribe_chunk_openai and translate_text, the encoder segments_to_srt *)
(* and the formatter seconds_to_srt_timestamp.                             *)
(*                                                                         *)
(* Times in the pipeline are whole seconds (Python floats holding          *)
(* integers, on which +, min and < are exact).  The formatter takes its    *)
(* argument in milliseconds T and models the IEEE-754 double nearest to    *)
(* T/1000, which is what a Python float holding that value is.             *)
(***************************************************************************)
EXTENDS Integers, Sequences, FiniteSets, TLC

VARIABLES
    pc,              \* position of the process_file run
    api_key,         \* TRUE when the api_key argument is not None
    openai_lib,      \* TRUE when "import openai" succeeded (openai is not None)
    use_openai,      \* the use_openai argument
    translator,      \* TRUE when Translator is not None (line 131)
    duration,        \* duration of the source media, read at lines 55/68
    work_dir,        \* TRUE once the work directory exists
    audio_file,      \* TRUE once full_audio.wav exists
    chunk_files,     \* indices i such that chunk_i.wav exists on disk
    chunks,          \* the list split_audio builds and returns
    start,           \* split_audio's loop variable start
    idx,             \* process_file's loop index (chunks consumed so far)
    text,            \* local text of line 139
    segments,        \* local segments of line 139
    all_segments,    \* the list all_segments
    appended,        \* history: the entries in the order lines 146/150 appended them
    progress,        \* the messages handed to progress_callback, in order
    transcribe_calls,\* calls of transcribe_chunk_openai made at line 139
    translate_calls, \* the calls of translator.translate: argument and outcome
    srt,             \* the output subtitle file: whether written, and its cue blocks
    error,           \* the kind of exception that ended the run, or "none"
    sec,             \* argument of a seconds_to_srt_timestamp call, in milliseconds
    ts               \* its result, <<>> before the call

vars == <<pc, api_key, openai_lib, use_openai, translator, duration, work_dir,
          audio_file, chunk_files, chunks, start, idx, text, segments,
          all_segments, appended, progress, transcribe_calls, translate_calls,
          srt, error, sec, ts>>

run_vars == <<pc, api_key, openai_lib, use_openai, translator, duration, work_dir,
              audio_file, chunk_files, chunks, start, idx, text, segments,
              all_segments, appended, progress, transcribe_calls,
              translate_calls, srt, error>>

-----------------------------------------------------------------------------
(* Bounds *)

\* Largest source duration, in seconds, the segmenter is run on.
MaxDuration == 910

\* Most segments the transcription responses of one run carry in total.
MaxEntries == 3

\* The formatter is run on every millisecond value of [b, b + MaxMs] for
\* each b of TsBases.
MaxMs == 2100

-----------------------------------------------------------------------------
(* Program constants *)

CHUNK_SECONDS == 5 * 60

-----------------------------------------------------------------------------
(* Small arithmetic *)

Min(a, b) == IF a <= b THEN a ELSE b

RECURSIVE Pow2(_)
Pow2(n) == IF n = 0 THEN 1 ELSE 2 * Pow2(n - 1)

\* 2^n modulo m, without forming 2^n.
RECURSIVE Pow2Mod(_, _)
Pow2Mod(n, m) == IF n = 0 THEN 1 % m ELSE (2 * Pow2Mod(n - 1, m)) % m

-----------------------------------------------------------------------------
(* seconds_to_srt_timestamp, lines 40-45.                                  *)
(*                                                                         *)
(* The argument is the double sec nearest to T/1000.  Write T = 1000q + r. *)
(* q is a double, so q <= sec < q + 1 and int(sec), sec // 3600,           *)
(* (sec % 3600) // 60 and int(sec % 60) are the exact integer results on   *)
(* q.  The fraction sec - int(sec) is exact too; it is r/1000 rounded to   *)
(* the grid of sec, 2^-m with m = 52 - floor(log2(sec)).                   *)

\* floor(log2(T/1000)) for T > 0: the binary exponent of sec.
RECURSIVE ExponentUp(_, _)
ExponentUp(T, k) == IF 1000 * Pow2(k + 1) <= T THEN ExponentUp(T, k + 1) ELSE k

RECURSIVE ExponentDown(_, _)
ExponentDown(T, j) == IF T * Pow2(j) >= 1000 THEN 0 - j ELSE ExponentDown(T, j + 1)

Exponent(T) == IF T >= 1000 THEN ExponentUp(T, 0) ELSE ExponentDown(T, 1)

\* The rounding error of the argument, scaled: with m fraction bits the double
\* holds q + N / 2^m, N the integer nearest to r * 2^m / 1000 (ties to even),
\* and RoundingError(T) = r * 2^m - 1000 * N.  Positive: sec < T/1000.
RoundingError(T) ==
    LET r    == T % 1000
        m    == 52 - Exponent(T)
        rem2 == (r * Pow2Mod(m, 2000)) % 2000
        odd  == rem2 >= 1000
        rem  == rem2 % 1000
    IN  IF r = 0 THEN 0
        ELSE IF rem > 500 \/ (rem = 500 /\ odd) THEN rem - 1000
        ELSE rem

\* The exponent of the doubles just below the integer r >= 1:
\* 2^e < r <= 2^(e+1).
RECURSIVE ExponentBelow(_, _)
ExponentBelow(r, e) == IF Pow2(e + 1) < r THEN ExponentBelow(r, e + 1) ELSE e

\* a * 2^x <= 2^y for integers x, y of either sign, a > 0.
ScaledLeq(a, x, y) ==
    IF x >= y THEN a * Pow2(x - y) <= 1 ELSE a <= Pow2(y - x)

\* Line 44: int((sec - int(sec)) * 1000).  The exact product is
\* r - RoundingError / 2^m.  With no positive error it lies in [r, r + 1) and
\* so does its double.  With a positive error it lies just below r, and its
\* double is r exactly when the distance to r is at most half the spacing
\* 2^(e-52) of the doubles below r (a tie goes to r, whose mantissa is even);
\* otherwise the double is below r and int() gives r - 1.
FractionMillis(T) ==
    LET r   == T % 1000
        rho == RoundingError(T)
        k   == Exponent(T)
        e   == ExponentBelow(r, 0 - 1)
    IN  IF rho > 0 /\ ~ScaledLeq(rho, k + 1, e) THEN r - 1 ELSE r

DigitChars == <<"0", "1", "2", "3", "4", "5", "6", "7", "8", "9">>

\* The decimal digits of n >= 0, most significant first.
RECURSIVE Decimal(_)
Decimal(n) == IF n < 10 THEN <<DigitChars[n + 1]>>
              ELSE Decimal(n \div 10) \o <<DigitChars[(n % 10) + 1]>>

\* The format specification {n:0wd}: at least w digits, zero-padded.
RECURSIVE ZeroPad(_, _)
ZeroPad(digits, w) == IF Len(digits) >= w THEN digits
                      ELSE ZeroPad(<<"0">> \o digits, w)

seconds_to_srt_timestamp(T) ==
    LET q  == T \div 1000
        h  == q \div 3600
        m  == (q % 3600) \div 60
        s  == q % 60
        ms == FractionMillis(T)
    IN  ZeroPad(Decimal(h), 2) \o <<":">> \o ZeroPad(Decimal(m), 2) \o <<":">>
        \o ZeroPad(Decimal(s), 2) \o <<",">> \o ZeroPad(Decimal(ms), 3)

-----------------------------------------------------------------------------
(* Text.  A string is a sequence of characters. *)

\* str.strip(): leading and trailing whitespace removed.
RECURSIVE LStrip(_)
LStrip(t) == IF t # <<>> /\ Head(t) = " " THEN LStrip(Tail(t)) ELSE t

RECURSIVE RStrip(_)
RStrip(t) == IF t # <<>> /\ t[Len(t)] = " " THEN RStrip(SubSeq(t, 1, Len(t) - 1))
             ELSE t

Strip(t) == RStrip(LStrip(t))

\* dict.get(key, default)
Get(d, key, default) == IF key \in DOMAIN d THEN d[key] ELSE default

-----------------------------------------------------------------------------
(* The environment: what the external services may answer. *)

\* The full text of a transcription response.
FullTexts == {<<"a">>, <<" ", "a", " ">>}

\* A segment of a transcription response is a dict; none of its keys is
\* guaranteed.  Local times lie inside or outside the chunk, in either order.
SegmentText == <<" ", "b">>
LocalStarts == {CHUNK_SECONDS + 100}
LocalEnds == {CHUNK_SECONDS - 100}

SegmentDicts ==
    {[text |-> SegmentText]}
    \cup {[start |-> s, text |-> SegmentText] : s \in LocalStarts}
    \cup {[end |-> e, text |-> SegmentText] : e \in LocalEnds}
    \cup {[start |-> s, end |-> e, text |-> SegmentText] :
              s \in LocalStarts, e \in LocalEnds}

\* The segment lists of at most n segments.
SegmentLists(n) == UNION {[1..k -> SegmentDicts] : k \in 0..n}

\* What a call of the transcription service does: it raises, or answers with
\* a dict that holds a text and, optionally, segments.
ServiceRaises == [raised |-> TRUE]

ServiceOutcomes(n) ==
    {ServiceRaises}
    \cup {[text |-> t] : t \in FullTexts}
    \cup {[text |-> t, segments |-> l] : t \in FullTexts, l \in SegmentLists(n)}

\* What the translation service answers when it answers.
Translation(t) == t \o <<"z", " ">>

-----------------------------------------------------------------------------
(* transcribe_chunk_openai, lines 89-106.  primary is the outcome of         *)
(* openai.Audio.transcribe, fallback the outcome of the alternate call made  *)
(* when the first raises.                                                    *)

Normalised(res) ==
    [error |-> "none", text |-> Get(res, "text", <<>>),
     segments |-> Get(res, "segments", <<>>)]

Raised(kind) == [error |-> kind, text |-> <<>>, segments |-> <<>>]

transcribe_chunk_openai(lib, key, primary, fallback) ==
    IF ~lib THEN Raised("config")
    ELSE IF ~key THEN Raised("config")
    ELSE IF primary # ServiceRaises THEN Normalised(primary)
    ELSE IF fallback # ServiceRaises THEN Normalised(fallback)
    ELSE Raised("transcribe")

translate_text_Raising(t, tr, ok) ==
    IF ~tr THEN [raised |-> FALSE, value |-> t]
    ELSE IF ok THEN [raised |-> FALSE, value |-> Translation(t)]
    ELSE [raised |-> TRUE, value |-> t]

(* translate_text, lines 108-114.  ok is the outcome of translator.translate. *)
translate_text(t, tr, ok) ==
    IF ~tr THEN [raised |-> FALSE, value |-> t]
    ELSE IF ok THEN [raised |-> FALSE, value |-> Translation(t)]
    ELSE [raised |-> FALSE, value |-> t]

-----------------------------------------------------------------------------
(* split_audio, lines 47-87 *)

SplitContinues_Inclusive(s, d) == s <= d

\* Line 73: the loop condition.
SplitContinues(s, d) == s < d

ChunkEnd_Padded(s, d) == s + CHUNK_SECONDS

\* Line 74: the end of the window that starts at s.
ChunkEnd(s, d) == Min(d, s + CHUNK_SECONDS)

-----------------------------------------------------------------------------
(* process_file, lines 125-158 *)

SegmentEntry_Unrebased(st, s, zh) ==
    [start |-> Get(s, "start", 0), end |-> Get(s, "end", 0),
     text |-> Strip(Get(s, "text", <<>>)), zh |-> zh]

\* Lines 142-146: the entry of one segment of the chunk that starts at st.
SegmentEntry(st, s, zh) ==
    [start |-> st + Get(s, "start", 0), end |-> st + Get(s, "end", 0),
     text |-> Strip(Get(s, "text", <<>>)), zh |-> zh]

\* Lines 148-150: the entry of a chunk whose response has no segments.
WholeChunkEntry(c, t, zh) ==
    [start |-> c.start, end |-> c.end, text |-> Strip(t), zh |-> zh]

\* Line 155: list.sort(key = start) is a stable sort.
RECURSIVE InsertByStart(_, _)
InsertByStart(e, sorted) ==
    IF sorted = <<>> THEN <<e>>
    ELSE IF e.start <= Head(sorted).start THEN <<e>> \o sorted
    ELSE <<Head(sorted)>> \o InsertByStart(e, Tail(sorted))

RECURSIVE StableSort(_)
StableSort(l) == IF l = <<>> THEN <<>>
                 ELSE InsertByStart(Head(l), StableSort(Tail(l)))

SortByStart_Skipped(l) == l

SortByStart(l) == StableSort(l)

(* segments_to_srt, lines 116-123: one cue block per entry. *)
segments_to_srt(l) ==
    [i \in 1..Len(l) |->
        [index |-> i,
         start_ts |-> seconds_to_srt_timestamp(1000 * l[i].start),
         end_ts |-> seconds_to_srt_timestamp(1000 * l[i].end),
         eng |-> Strip(l[i].text),
         chi |-> Strip(l[i].zh)]]

\* The output file: absent, or written with its cue blocks.
NoFile == [written |-> FALSE, cues |-> <<>>]

Written(cues) == [written |-> TRUE, cues |-> cues]

-----------------------------------------------------------------------------
(* The run of process_file.  The caller supplies a progress callback, as    *)
(* App._run_job does (line 206).                                            *)

\* Durations of the runs of the whole pipeline: no chunk, one short chunk,
\* one full chunk, a full chunk and a short one, two full chunks.
RunDurations == {k * (CHUNK_SECONDS \div 2) : k \in 0..4}

Idle ==
    /\ pc = "start"
    /\ work_dir = FALSE /\ audio_file = FALSE /\ chunk_files = {}
    /\ chunks = <<>> /\ start = 0 /\ idx = 0
    /\ text = <<>> /\ segments = <<>>
    /\ all_segments = <<>> /\ appended = <<>>
    /\ progress = <<>> /\ transcribe_calls = 0 /\ translate_calls = <<>>
    /\ srt = NoFile /\ error = "none"

Init ==
    /\ Idle
    /\ api_key \in BOOLEAN /\ openai_lib \in BOOLEAN /\ use_openai \in BOOLEAN
    /\ translator \in BOOLEAN
    /\ duration \in RunDurations
    /\ sec = 0 /\ ts = <<>>

Fail_Swallowed(kind) == pc' = "loop" /\ error' = kind

\* An exception leaves process_file: the run ends with it.
Fail(kind) == pc' = "failed" /\ error' = kind

\* Lines 126-129 and 48-68: the work directory is made and the audio track
\* extracted; the extraction tool may fail (it is taken to leave no file).
ExtractAudio ==
    /\ pc = "start"
    /\ work_dir' = TRUE
    /\ \/ /\ audio_file' = TRUE
          /\ chunks' = <<>> /\ start' = 0
          /\ pc' = "split" /\ error' = error
       \/ /\ audio_file' = FALSE
          /\ Fail("extract")
          /\ UNCHANGED <<chunks, start>>
    /\ UNCHANGED <<api_key, openai_lib, use_openai, translator, duration,
                   chunk_files, idx, text, segments, all_segments, appended,
                   progress, transcribe_calls, translate_calls, srt, sec, ts>>

\* Lines 73-86: one iteration of the loop of split_audio.  ffmpeg writes
\* chunk_<idx>.wav, or fails (check_call raises; it is taken to leave no file).
SplitChunk ==
    /\ pc = "split"
    /\ SplitContinues(start, duration)
    /\ LET i == Len(chunks)
       IN  \/ /\ chunk_files' = chunk_files \cup {i}
              /\ chunks' = Append(chunks, [start |-> start,
                                           end |-> ChunkEnd(start, duration),
                                           path |-> i])
              /\ start' = start + CHUNK_SECONDS
              /\ UNCHANGED <<pc, error>>
           \/ /\ chunk_files' = chunk_files
              /\ Fail("extract")
              /\ UNCHANGED <<chunks, start>>
    /\ UNCHANGED <<api_key, openai_lib, use_openai, translator, duration,
                   work_dir, audio_file, idx, text, segments, all_segments,
                   appended, progress, transcribe_calls, translate_calls, srt,
                   sec, ts>>

\* Lines 87 and 130-134: split_audio returns, the loop over the chunks begins.
SplitReturn ==
    /\ pc = "split"
    /\ ~SplitContinues(start, duration)
    /\ pc' = "loop"
    /\ idx' = 0
    /\ UNCHANGED <<api_key, openai_lib, use_openai, translator, duration,
                   work_dir, audio_file, chunk_files, chunks, start, text,
                   segments, all_segments, appended, progress,
                   transcribe_calls, translate_calls, srt, error, sec, ts>>

Message(kind) == [msg |-> kind, i |-> idx + 1, n |-> Len(chunks)]

\* Lines 151-152, reached after the callback of lines 136-137.
RejectMode ==
    /\ pc = "loop"
    /\ idx < Len(chunks)
    /\ ~use_openai
    /\ progress' = Append(progress, Message("Transcribing chunk"))
    /\ Fail("config")
    /\ UNCHANGED <<api_key, openai_lib, use_openai, translator, duration,
                   work_dir, audio_file, chunk_files, chunks, start, idx, text,
                   segments, all_segments, appended, transcribe_calls,
                   translate_calls, srt, sec, ts>>

\* Lines 136-139: the callback, then transcribe_chunk_openai on the chunk.
TranscribeChunk ==
    /\ pc = "loop"
    /\ idx < Len(chunks)
    /\ use_openai
    /\ progress' = Append(progress, Message("Transcribing chunk"))
    /\ transcribe_calls' = transcribe_calls + 1
    /\ \E primary \in ServiceOutcomes(MaxEntries - Len(all_segments)) :
       \E fallback \in IF primary = ServiceRaises
                       THEN ServiceOutcomes(MaxEntries - Len(all_segments))
                       ELSE {primary} :
          LET r == transcribe_chunk_openai(openai_lib, api_key, primary, fallback)
          IN  IF r.error = "none"
              THEN /\ text' = r.text
                   /\ segments' = r.segments
                   /\ pc' = "collect"
                   /\ error' = error
              ELSE /\ Fail(r.error)
                   /\ UNCHANGED <<text, segments>>
    /\ UNCHANGED <<api_key, openai_lib, use_openai, translator, duration,
                   work_dir, audio_file, chunk_files, chunks, start, idx,
                   all_segments, appended, translate_calls, srt, sec, ts>>

\* Lines 140-150: the entries of the chunk, given the outcome oks[j] of the
\* j-th call of translator.translate.  The result holds the entries, the
\* calls made and whether translate_text let an exception out.
RECURSIVE CollectSegments(_, _, _, _)
CollectSegments(c, segs, oks, acc) ==
    IF segs = <<>> THEN acc
    ELSE LET s   == Head(segs)
             eng == Strip(Get(s, "text", <<>>))
             tr  == translate_text(eng, translator, Head(oks))
             log == IF translator
                    THEN Append(acc.calls, [text |-> eng, ok |-> Head(oks)])
                    ELSE acc.calls
         IN  IF tr.raised
             THEN [entries |-> acc.entries, calls |-> log, raised |-> TRUE]
             ELSE CollectSegments(c, Tail(segs), Tail(oks),
                     [entries |-> Append(acc.entries,
                                         SegmentEntry(c.start, s, tr.value)),
                      calls |-> log, raised |-> FALSE])

CollectChunk(c, t, segs, oks) ==
    LET none == [entries |-> <<>>, calls |-> <<>>, raised |-> FALSE]
    IN  IF segs # <<>> THEN CollectSegments(c, segs, oks, none)
        ELSE LET eng == Strip(t)
                 tr  == translate_text(eng, translator, Head(oks))
             IN  [entries |-> IF tr.raised THEN <<>>
                              ELSE <<WholeChunkEntry(c, t, tr.value)>>,
                  calls |-> IF translator THEN <<[text |-> eng, ok |-> Head(oks)]>>
                            ELSE <<>>,
                  raised |-> tr.raised]

\* Lines 140-150 and 153-154: the entries are appended, the callback called.
CollectEntries ==
    /\ pc = "collect"
    /\ LET n == IF segments = <<>> THEN 1 ELSE Len(segments)
       IN  \E oks \in IF translator THEN [1..n -> BOOLEAN] ELSE {[j \in 1..n |-> FALSE]} :
              LET r == CollectChunk(chunks[idx + 1], text, segments, oks)
              IN  /\ all_segments' = all_segments \o r.entries
                  /\ appended' = appended \o r.entries
                  /\ translate_calls' = translate_calls \o r.calls
                  /\ IF r.raised
                     THEN /\ Fail("translate")
                          /\ UNCHANGED <<idx, progress>>
                     ELSE /\ progress' = Append(progress, Message("Finished chunk"))
                          /\ idx' = idx + 1
                          /\ pc' = "loop"
                          /\ error' = error
    /\ UNCHANGED <<api_key, openai_lib, use_openai, translator, duration,
                   work_dir, audio_file, chunk_files, chunks, start, text,
                   segments, transcribe_calls, srt, sec, ts>>

\* Lines 155-158: the loop is over; sort, write the subtitle file, return.
Finish ==
    /\ pc = "loop"
    /\ idx = Len(chunks)
    /\ all_segments' = SortByStart(all_segments)
    /\ srt' = Written(segments_to_srt(all_segments'))
    /\ pc' = "done"
    /\ UNCHANGED <<api_key, openai_lib, use_openai, translator, duration,
                   work_dir, audio_file, chunk_files, chunks, start, idx, text,
                   segments, appended, progress, transcribe_calls,
                   translate_calls, error, sec, ts>>

Next ==
    \/ ExtractAudio
    \/ SplitChunk
    \/ SplitReturn
    \/ RejectMode
    \/ TranscribeChunk
    \/ CollectEntries
    \/ Finish

Spec == Init /\ [][Next]_vars

-----------------------------------------------------------------------------
(* The segmenter alone, on every duration up to MaxDuration. *)

InitSplit ==
    /\ Idle
    /\ api_key = TRUE /\ openai_lib = TRUE /\ use_openai = TRUE
    /\ translator = TRUE
    /\ duration \in 0..MaxDuration
    /\ sec = 0 /\ ts = <<>>

NextSplit ==
    \/ ExtractAudio
    \/ SplitChunk
    \/ SplitReturn

SpecSplit == InitSplit /\ [][NextSplit]_vars

-----------------------------------------------------------------------------
(* The formatter alone.  Its arguments: every millisecond of the first      *)
(* seconds, of the seconds before and after the first minute and the first  *)
(* hour, and of the seconds around 3725.4.                                  *)

TsBases == {0, 59000, 3599000, 3725000}

TsInputs == {b + d : b \in TsBases, d \in 0..MaxMs}

InitTs ==
    /\ Idle
    /\ api_key = TRUE /\ openai_lib = TRUE /\ use_openai = TRUE
    /\ translator = TRUE
    /\ duration = 0
    /\ sec \in TsInputs /\ ts = <<>>

FormatTimestamp ==
    /\ ts = <<>>
    /\ ts' = seconds_to_srt_timestamp(sec)
    /\ UNCHANGED <<run_vars, sec>>

NextTs == FormatTimestamp

SpecTs == InitTs /\ [][NextTs]_vars

-----------------------------------------------------------------------------
(* Properties *)

Window(c) == [start |-> c.start, end |-> c.end]

\* C1: when split_audio returns, its windows, in list order, start at 0, are
\* contiguous and non-overlapping, each has 0 < end - start <= CHUNK_SECONDS,
\* the last one ends at the duration; a duration that is no multiple of
\* CHUNK_SECONDS leaves a shorter last window, neither padded nor dropped,
\* and 610 gives [0,300), [300,600), [600,610).
C1_WindowsCoverSource ==
    pc = "loop" =>
        LET n == Len(chunks)
        IN  /\ (n = 0) <=> (duration = 0)
            /\ n > 0 => chunks[1].start = 0 /\ chunks[n].end = duration
            /\ \A i \in 2..n : chunks[i].start = chunks[i - 1].end
            /\ \A i \in 1..n : \A j \in 1..n :
                  i < j => chunks[i].end <= chunks[j].start
            /\ \A i \in 1..n :
                  /\ 0 < chunks[i].end - chunks[i].start
                  /\ chunks[i].end - chunks[i].start <= CHUNK_SECONDS
            /\ duration % CHUNK_SECONDS # 0 =>
                  /\ chunks[n].end - chunks[n].start = duration % CHUNK_SECONDS
                  /\ n = (duration \div CHUNK_SECONDS) + 1
            /\ duration = 610 =>
                  [i \in 1..n |-> Window(chunks[i])] =
                      <<[start |-> 0, end |-> 300], [start |-> 300, end |-> 600],
                        [start |-> 600, end |-> 610]>>

C1_Witness == pc = "loop" /\ duration = 610 /\ Len(chunks) = 3

\* The entries the chunk processed last contributed: after the chunk's
\* entries are appended, text and segments still hold its response.
LastChunkEntries ==
    LET n == IF segments = <<>> THEN 1 ELSE Len(segments)
    IN  SubSeq(appended, Len(appended) - n + 1, Len(appended))

\* C2: every entry appended for a chunk lies inside the chunk's window:
\* window.start <= entry.start <= entry.end <= window.end.
C2_EntriesInsideWindow ==
    (pc = "loop" /\ idx > 0) =>
        \A i \in 1..Len(LastChunkEntries) :
            LET e == LastChunkEntries[i]
                w == chunks[idx]
            IN  w.start <= e.start /\ e.start <= e.end /\ e.end <= w.end

\* The subsequence of the entries that start at v.
StartingAt(l, v) ==
    LET Test(e) == e.start = v
    IN  SelectSeq(l, Test)

\* C3: the list handed to the encoder is sorted non-decreasing by start, and
\* for every start time it holds exactly the entries appended with that start
\* time, in the order they were appended (so it is a permutation of the appended
\* entries and equal starts keep their insertion order).
C3_TimelineSortedStable ==
    pc = "done" =>
        /\ \A i \in 1..(Len(all_segments) - 1) :
              all_segments[i].start <= all_segments[i + 1].start
        /\ Len(all_segments) = Len(appended)
        /\ \A i \in 1..Len(appended) :
              StartingAt(all_segments, appended[i].start) =
              StartingAt(appended, appended[i].start)
        /\ Len(srt.cues) = Len(all_segments)

\* Two chunks; the first returned two distinct segments with the same start,
\* later than the start of the second chunk's entry.
C3_Witness ==
    /\ pc = "done"
    /\ Len(chunks) = 2
    /\ Len(appended) = 3
    /\ appended[1].start = appended[2].start
    /\ appended[1] # appended[2]
    /\ appended[2].start > appended[3].start
    /\ all_segments = <<appended[3], appended[1], appended[2]>>

\* C4: translate_text never raises; with no translator, or when the call of
\* translator.translate fails, the entry's translated text is its source text;
\* no run ends on a translation failure, and the cue written for such an entry
\* has its translated line equal to its source line.
C4_TranslationFailOpen ==
    /\ error # "translate"
    /\ pc # "failed" =>
          /\ translator => Len(translate_calls) = Len(appended)
          /\ ~translator => translate_calls = <<>>
          /\ \A i \in 1..Len(appended) :
                (~translator \/ ~translate_calls[i].ok) =>
                    appended[i].zh = appended[i].text
    /\ pc = "done" =>
          \A i \in 1..Len(all_segments) :
              all_segments[i].zh = all_segments[i].text =>
                  srt.cues[i].chi = srt.cues[i].eng

\* A run in which a call of the translator failed has written its file.
C4_Witness ==
    /\ pc = "done"
    /\ srt # NoFile
    /\ \E i \in 1..Len(translate_calls) : ~translate_calls[i].ok
    /\ \E i \in 1..Len(translate_calls) : translate_calls[i].ok

Finished(l) ==
    LET Test(m) == m.msg = "Finished chunk"
    IN  Len(SelectSeq(l, Test))

\* C5: a run that fails (extraction or transcription, at any chunk) ends with
\* the error and without the subtitle file; the file is written only after
\* every chunk was transcribed and collected, by a run that raised nothing.
C5_NoOutputOnFailure ==
    /\ pc = "failed" => srt = NoFile /\ error # "none"
    /\ error # "none" => pc = "failed"
    /\ srt # NoFile =>
          /\ pc = "done"
          /\ error = "none"
          /\ idx = Len(chunks)
          /\ transcribe_calls = Len(chunks)
          /\ Finished(progress) = Len(chunks)

\* The transcription of the second chunk raised, after the first was collected.
C5_Witness ==
    /\ pc = "failed"
    /\ error = "transcribe"
    /\ idx = 1
    /\ appended # <<>>
    /\ srt = NoFile

ConfigurationError == ~api_key \/ ~openai_lib \/ ~use_openai

\* C6: a configuration error (no api_key, no openai library, use_openai
\* False) always ends the run with an error, for every duration, and nothing
\* is done before it is raised: no work directory, no audio, no chunk file, no
\* progress message.
C6_ConfigErrorBeforeWork ==
    ConfigurationError =>
        /\ pc # "done"
        /\ error = "config" =>
              /\ ~work_dir
              /\ ~audio_file
              /\ chunk_files = {}
              /\ progress = <<>>

\* C7: when the run has ended, normally or on an error, no chunk file is left.
C7_ChunkFilesDeleted ==
    pc \in {"done", "failed"} => chunk_files = {}

\* C8: on a source of duration 0 split_audio returns no chunk, no
\* transcription or translation call is made, no progress message is sent,
\* and the run, once the audio is extracted, ends normally with a subtitle
\* file of zero cue blocks.
C8_EmptySource ==
    duration = 0 =>
        /\ chunks = <<>> /\ chunk_files = {}
        /\ transcribe_calls = 0 /\ translate_calls = <<>>
        /\ progress = <<>>
        /\ pc = "failed" => error = "extract" /\ chunks = <<>> /\ start = 0
        /\ pc \notin {"start", "split", "failed"} =>
              \/ pc = "loop" /\ idx = 0
              \/ pc = "done" /\ srt = Written(<<>>)

C8_Witness == duration = 0 /\ pc = "done" /\ srt = Written(<<>>) /\ audio_file

LocalTime(s, key) == IF key \in DOMAIN s THEN s[key] ELSE 0

\* C9: a chunk whose response has no segments contributes exactly one entry,
\* with the window's start and end and the trimmed full text; a chunk whose
\* response has n >= 1 segments contributes exactly n entries, in the order of
\* the segments, with start = window.start + local start and
\* end = window.start + local end.
C9_EntriesPerChunk ==
    [][pc = "collect" =>
        LET w    == chunks[idx + 1]
            old  == Len(all_segments)
            n    == Len(segments)
        IN  /\ SubSeq(all_segments', 1, old) = all_segments
            /\ IF n = 0
               THEN /\ Len(all_segments') = old + 1
                    /\ all_segments'[old + 1].start = w.start
                    /\ all_segments'[old + 1].end = w.end
                    /\ all_segments'[old + 1].text = Strip(text)
               ELSE /\ Len(all_segments') = old + n
                    /\ \A j \in 1..n :
                          /\ all_segments'[old + j].start =
                                w.start + LocalTime(segments[j], "start")
                          /\ all_segments'[old + j].end =
                                w.start + LocalTime(segments[j], "end")]_vars

\* The first chunk gave two segments, the second none.
C9_Witness ==
    /\ pc = "loop"
    /\ idx = 2
    /\ segments = <<>>
    /\ text = <<" ", "a", " ">>
    /\ Len(appended) = 3
    /\ appended[3] = [start |-> 300, end |-> 450, text |-> <<"a">>, zh |-> <<"a">>]

DigitValue(c) == CHOOSE d \in 0..9 : DigitChars[d + 1] = c

RECURSIVE Number(_)
Number(digits) ==
    IF digits = <<>> THEN 0
    ELSE 10 * Number(SubSeq(digits, 1, Len(digits) - 1))
         + DigitValue(digits[Len(digits)])

\* C10: the result is HH:MM:SS,mmm with 0 <= MM < 60, 0 <= SS < 60,
\* 0 <= mmm < 1000 and HH*3600000 + MM*60000 + SS*1000 + mmm equal to the
\* argument in milliseconds.
C10_ExactDecomposition ==
    ts # <<>> =>
        /\ Len(ts) = 12
        /\ ts[3] = ":" /\ ts[6] = ":" /\ ts[9] = ","
        /\ LET HH  == Number(SubSeq(ts, 1, 2))
               MM  == Number(SubSeq(ts, 4, 5))
               SS  == Number(SubSeq(ts, 7, 8))
               mmm == Number(SubSeq(ts, 10, 12))
           IN  /\ MM < 60 /\ SS < 60 /\ mmm < 1000
               /\ HH * 3600000 + MM * 60000 + SS * 1000 + mmm = sec

====
